---- MODULE Spec2Model ----
(***************************************************************************)
(* Model of stock_analyzer_daily_30min_trendchecks_reversiontomeanchecks.py *)
(*                                                                         *)
(* analyze_signal and calculate_stop_loss are pure functions of a bar      *)
(* table; run_streamlit_app's "Find Setups" handler is a sequential loop   *)
(* over the entered tickers.                                               *)
(*                                                                         *)
(* Numbers.  get_data rounds every column to 4 decimals, so every value    *)
(* of a table is an integer number of units; the model works on those      *)
(* integers.  Every comparison the code makes between floats is made here  *)
(* on exact rationals by cross-multiplication (0.20 = 1/5, 0.03 = 3/100,   *)
(* 1.05 = 105/100, 0.95 = 95/100).  Prices, EMA-200 and band-widths are    *)
(* positive where defined; NaN is the value of an undefined cell.  The      *)
(* slope np.polyfit returns is the exact least-squares slope here: a float  *)
(* result that rounds away from an exact 0 is not modelled.                 *)
(***************************************************************************)
EXTENDS Integers, Sequences, FiniteSets, TLC

VARIABLES
  df,                  \* argument of the function under call (pure-function harness)
  direction,           \* argument of calculate_stop_loss (pure-function harness)
  ret,                 \* what the call returned; Unset before the call
  pc,                  \* position of the "Find Setups" handler
  tickers_to_analyze,  \* run_streamlit_app: the ticker list
  i,                   \* run_streamlit_app: number of tickers processed
  results_list,        \* run_streamlit_app: the result records
  loc,                 \* run_streamlit_app: the loop body's local variables
  sl_calls             \* calls of calculate_stop_loss made by the last iteration

vars == <<df, direction, ret, pc, tickers_to_analyze, i, results_list, loc, sl_calls>>

----------------------------------------------------------------------------
(* Values *)

\* pandas' NaN: an undefined cell.  Every defined cell of the model is >= 0.
NaN == 0 - 1

isna(x) == x = NaN

\* Python's None for a table: get_data's "return None".
None == [avail |-> FALSE, bars |-> <<>>]

DataFrame(bars) == [avail |-> TRUE, bars |-> bars]

len(d) == Len(d.bars)

Max(a, b) == IF a >= b THEN a ELSE b

Min(a, b) == IF a <= b THEN a ELSE b

Abs(a) == IF a >= 0 THEN a ELSE 0 - a

\* x < y on floats: False as soon as one side is NaN
Lt(x, y) == ~isna(x) /\ ~isna(y) /\ x < y

Gt(x, y) == ~isna(x) /\ ~isna(y) /\ x > y

\* A table cell or text of a result record: "N/A", a marker, or f"{x:.4f}",
\* the number x printed with four decimals
Text(s) == <<s>>

Format4(x) == <<"%.4f", x>>

----------------------------------------------------------------------------
(* pandas positional indexing *)

\* df.iloc[k] for a negative k: -1 is the last row
iloc(s, k) == s[Len(s) + 1 + k]

\* s.iloc[a:b] for negative a, b: rows a .. b-1 counted from the end,
\* clipped at the start of the table
slice(s, a, b) == SubSeq(s, Max(Len(s) + a, 0) + 1, Len(s) + b)

\* df[name]
column(s, name) == [j \in 1..Len(s) |-> s[j][name]]

\* Series.count(): the number of non-NaN cells
count(s) == Cardinality({j \in 1..Len(s) : ~isna(s[j])})

\* Series.dropna()
dropna(s) == SelectSeq(s, LAMBDA x : ~isna(x))

\* Series.min() and Series.max() of a non-empty series without NaN
series_min(s) ==
  CHOOSE v \in {s[j] : j \in 1..Len(s)} : \A j \in 1..Len(s) : v <= s[j]

series_max(s) ==
  CHOOSE v \in {s[j] : j \in 1..Len(s)} : \A j \in 1..Len(s) : v >= s[j]

\* f[lo] + ... + f[hi]
RECURSIVE sum(_, _, _)
sum(f, lo, hi) ==
  IF lo > hi THEN 0
  ELSE IF lo = hi THEN f[lo]
  ELSE LET m == (lo + hi) \div 2 IN sum(f, lo, m) + sum(f, m + 1, hi)

----------------------------------------------------------------------------
(* analyze_signal *)

lookback_period == 120

\* squeeze_percentile = 0.20, as the fraction 1/5
squeeze_percentile == <<1, 5>>

trend_lookback == 60

\* Series.quantile(q), linear interpolation between order statistics, for a
\* series without NaN and q = q[1]/q[2]: the fractional position is
\* q*(n-1); the result is returned multiplied by q[2] to stay an integer.
quantile(s, q) ==
  LET sorted == SortSeq(s, LAMBDA a, b : a < b)
      h      == q[1] * (Len(s) - 1)
      lo     == h \div q[2]
      r      == h % q[2]
  IN  IF r = 0 THEN q[2] * sorted[lo + 1]
      ELSE q[2] * sorted[lo + 1] + r * (sorted[lo + 2] - sorted[lo + 1])

\* below_threshold with a comparison that is not strict
below_threshold_or_equal(bw, threshold) ==
  ~isna(bw) /\ squeeze_percentile[2] * bw <= threshold

\* bw < squeeze_threshold, the threshold given multiplied by squeeze_percentile[2]
below_threshold(bw, threshold) ==
  ~isna(bw) /\ squeeze_percentile[2] * bw < threshold

\* crossover with a tie counted as an up-trend
crossover_tie_is_buy(middle_bb, ema_200) ==
  IF middle_bb >= ema_200 THEN "Buy"
  ELSE IF middle_bb < ema_200 THEN "Sell"
  ELSE "Hold"

\* Condition 1: Primary Crossover Trend
crossover(middle_bb, ema_200) ==
  IF middle_bb > ema_200 THEN "Buy"
  ELSE IF middle_bb < ema_200 THEN "Sell"
  ELSE "Hold"

\* np.polyfit(time_index, ys, 1)[0] with time_index = np.arange(len(ys)), as
\* the fraction <<numerator, denominator>> of the least-squares solution
\* (n*Sxy - Sx*Sy) / (n*Sxx - Sx*Sx); the denominator is positive for n >= 2
polyfit_slope(ys) ==
  LET n   == Len(ys)
      x   == [j \in 1..n |-> j - 1]
      Sx  == sum(x, 1, n)
      Sy  == sum(ys, 1, n)
      Sxy == sum([j \in 1..n |-> x[j] * ys[j]], 1, n)
      Sxx == sum([j \in 1..n |-> x[j] * x[j]], 1, n)
  IN  <<n * Sxy - Sx * Sy, n * Sxx - Sx * Sx>>

\* squeeze_breakout without the test that the latest bar left the squeeze
squeeze_breakout_any_today(crossover_signal, is_squeeze_today, is_squeeze_yesterday, latest) ==
  IF is_squeeze_yesterday
  THEN IF crossover_signal = "Buy" /\ Gt(latest.Close, latest.BBU) THEN "Strong Buy"
       ELSE IF crossover_signal = "Sell" /\ Lt(latest.Close, latest.BBL) THEN "Strong Sell"
       ELSE ""
  ELSE ""

\* Strong Signal Check 1: Squeeze Breakout; "" when neither return is taken
squeeze_breakout(crossover_signal, is_squeeze_today, is_squeeze_yesterday, latest) ==
  IF is_squeeze_yesterday /\ ~is_squeeze_today
  THEN IF crossover_signal = "Buy" /\ Gt(latest.Close, latest.BBU) THEN "Strong Buy"
       ELSE IF crossover_signal = "Sell" /\ Lt(latest.Close, latest.BBL) THEN "Strong Sell"
       ELSE ""
  ELSE ""

\* context_check_2: Trend Slope
context_check_2(bars, crossover_signal) ==
  LET prices_for_trend == slice(bars, 0 - trend_lookback, 0 - 1)
  IN  \/ /\ crossover_signal = "Buy"
         /\ polyfit_slope(column(prices_for_trend, "Low"))[1] > 0
      \/ /\ crossover_signal = "Sell"
         /\ polyfit_slope(column(prices_for_trend, "High"))[1] < 0

\* abs(middle_bb - ema_200) / ema_200 < 0.03; a division by 0.0 gives inf or nan
is_near_ema(middle_bb, ema_200) ==
  IF ema_200 = 0 THEN FALSE
  ELSE 100 * Abs(middle_bb - ema_200) < 3 * ema_200

\* context_check_3 without the is_near_ema test
context_check_3_anywhere(bars, crossover_signal, middle_bb, ema_200) ==
  LET past_price_period == slice(column(bars, "Close"), 0 - 80, 0 - 20)
  IN  \/ /\ crossover_signal = "Buy"
         /\ 100 * series_max(past_price_period) > 105 * ema_200
      \/ /\ crossover_signal = "Sell"
         /\ 100 * series_min(past_price_period) < 95 * ema_200

\* context_check_3: Pullback to 200 EMA
context_check_3(bars, crossover_signal, middle_bb, ema_200) ==
  /\ is_near_ema(middle_bb, ema_200)
  /\ LET past_price_period == slice(column(bars, "Close"), 0 - 80, 0 - 20)
     IN  \/ /\ crossover_signal = "Buy"
            /\ 100 * series_max(past_price_period) > 105 * ema_200
         \/ /\ crossover_signal = "Sell"
            /\ 100 * series_min(past_price_period) < 95 * ema_200

\* Strong Signal Check 2: Squeeze Consolidation; "" when the return is not taken
squeeze_consolidation(bars, crossover_signal, is_squeeze_today, middle_bb, ema_200) ==
  IF is_squeeze_today
     /\ (\/ context_check_2(bars, crossover_signal)
         \/ context_check_3(bars, crossover_signal, middle_bb, ema_200))
  THEN IF crossover_signal = "Buy" THEN "Strong Buy" ELSE "Strong Sell"
  ELSE ""

\* The positions (iloc, from the end) of the rows a call has read when it
\* leaves through the given return
rows_read(exit, crossover_signal, near) ==
  IF exit = "guard" THEN {}
  ELSE IF exit = "nan" THEN {0 - 1, 0 - 2}
  ELSE IF exit \in {"count", "breakout", "not squeezed"}
  THEN {0 - k : k \in 1..lookback_period}
  ELSE {0 - k : k \in 1..lookback_period}
       \cup (IF crossover_signal \in {"Buy", "Sell"}
             THEN {0 - k : k \in 2..trend_lookback} ELSE {})
       \cup (IF near THEN {0 - k : k \in 21..80} ELSE {})

\* too_short with the length test off by one
too_short_off_by_one(d) == ~d.avail \/ len(d) < lookback_period - 1

\* df is None or len(df) < lookback_period
too_short(d) == ~d.avail \/ len(d) < lookback_period

\* analyze_signal with the return statement it left through:
\* signal is the value returned, exit names the return, read the rows read
analyze(d) ==
  IF too_short(d)
  THEN [signal |-> "Insufficient Data", exit |-> "guard", read |-> rows_read("guard", "", FALSE)]
  ELSE
  LET bars      == d.bars
      latest    == iloc(bars, 0 - 1)
      previous  == iloc(bars, 0 - 2)
      middle_bb == latest.BBM
      ema_200   == latest.EMA_200
  IN
  IF isna(middle_bb) \/ isna(ema_200) \/ isna(previous.BB_WIDTH)
  THEN [signal |-> "Insufficient Data", exit |-> "nan", read |-> rows_read("nan", "", FALSE)]
  ELSE
  LET crossover_signal     == crossover(middle_bb, ema_200)
      historical_bandwidth == slice(column(bars, "BB_WIDTH"), 0 - lookback_period, 0 - 1)
  IN
  IF count(historical_bandwidth) < lookback_period - 1
  THEN [signal |-> crossover_signal, exit |-> "count",
        read |-> rows_read("count", crossover_signal, FALSE)]
  ELSE
  LET squeeze_threshold    == quantile(dropna(historical_bandwidth), squeeze_percentile)
      is_squeeze_today     == below_threshold(latest.BB_WIDTH, squeeze_threshold)
      is_squeeze_yesterday == below_threshold(previous.BB_WIDTH, squeeze_threshold)
      check1 == squeeze_breakout(crossover_signal, is_squeeze_today,
                                 is_squeeze_yesterday, latest)
      check2 == squeeze_consolidation(bars, crossover_signal, is_squeeze_today,
                                      middle_bb, ema_200)
      near   == is_near_ema(middle_bb, ema_200)
  IN
  IF check1 # ""
  THEN [signal |-> check1, exit |-> "breakout",
        read |-> rows_read("breakout", crossover_signal, FALSE)]
  ELSE IF check2 # ""
  THEN [signal |-> check2, exit |-> "consolidation",
        read |-> rows_read("consolidation", crossover_signal, near)]
  ELSE IF is_squeeze_today
  THEN [signal |-> crossover_signal, exit |-> "fallback",
        read |-> rows_read("fallback", crossover_signal, near)]
  ELSE [signal |-> crossover_signal, exit |-> "not squeezed",
        read |-> rows_read("not squeezed", crossover_signal, FALSE)]

analyze_signal(d) == analyze(d).signal

----------------------------------------------------------------------------
(* calculate_stop_loss *)

swing_lookback == 60

\* calculate_stop_loss whose swing window runs to the end of the table,
\* latest bar included
calculate_stop_loss_with_latest(daily_df, dir) ==
  LET latest_ema_200 == iloc(column(daily_df.bars, "EMA_200"), 0 - 1)
      latest_atr     == iloc(column(daily_df.bars, "ATRr_14"), 0 - 1)
  IN  IF dir = "Buy"
      THEN LET sl_ema   == latest_ema_200 - latest_atr
               swing_low == series_min(slice(column(daily_df.bars, "Low"),
                                             0 - swing_lookback, 0))
           IN  <<Max(sl_ema, swing_low - latest_atr)>>
      ELSE IF dir = "Sell"
      THEN LET sl_ema    == latest_ema_200 + latest_atr
               swing_high == series_max(slice(column(daily_df.bars, "High"),
                                              0 - swing_lookback, 0))
           IN  <<Min(sl_ema, swing_high + latest_atr)>>
      ELSE <<>>

\* calculate_stop_loss that takes the wider of the two stops, not the tighter
calculate_stop_loss_wider(daily_df, dir) ==
  LET latest_ema_200 == iloc(column(daily_df.bars, "EMA_200"), 0 - 1)
      latest_atr     == iloc(column(daily_df.bars, "ATRr_14"), 0 - 1)
  IN  IF dir = "Buy"
      THEN LET sl_ema   == latest_ema_200 - latest_atr
               swing_low == series_min(slice(column(daily_df.bars, "Low"),
                                             0 - swing_lookback, 0 - 1))
           IN  <<Min(sl_ema, swing_low - latest_atr)>>
      ELSE IF dir = "Sell"
      THEN LET sl_ema    == latest_ema_200 + latest_atr
               swing_high == series_max(slice(column(daily_df.bars, "High"),
                                              0 - swing_lookback, 0 - 1))
           IN  <<Max(sl_ema, swing_high + latest_atr)>>
      ELSE <<>>

\* The price returned as <<price>>, Python's None as <<>>
calculate_stop_loss(daily_df, dir) ==
  LET latest_ema_200 == iloc(column(daily_df.bars, "EMA_200"), 0 - 1)
      latest_atr     == iloc(column(daily_df.bars, "ATRr_14"), 0 - 1)
  IN  IF dir = "Buy"
      THEN LET sl_ema   == latest_ema_200 - latest_atr
               swing_low == series_min(slice(column(daily_df.bars, "Low"),
                                             0 - swing_lookback, 0 - 1))
           IN  <<Max(sl_ema, swing_low - latest_atr)>>
      ELSE IF dir = "Sell"
      THEN LET sl_ema    == latest_ema_200 + latest_atr
               swing_high == series_max(slice(column(daily_df.bars, "High"),
                                              0 - swing_lookback, 0 - 1))
           IN  <<Min(sl_ema, swing_high + latest_atr)>>
      ELSE <<>>

----------------------------------------------------------------------------
(* Bar tables the calls are made on.  A table is described by a few        *)
(* parameters; Bar(p, k) is its row at position -k.                        *)

\* Bars a table may have beyond lookback_period
MaxExtra == 1

\* Offset of Low and High at position -k of the trend window [-60, -2]
TrendOffset(trend, k) ==
  IF k < 2 \/ k > 60 THEN 0
  ELSE IF trend = "up" THEN 60 - k
  ELSE IF trend = "down" THEN k - 2
  ELSE IF trend = "dip" /\ k = 2 THEN 0 - 3
  ELSE IF trend = "bump" /\ k = 2 THEN 3
  ELSE 0

Bar(p, k) ==
  LET bbm == IF k = 1 THEN p.mid ELSE p.lvl
      low == IF k = 1 /\ p.extreme THEN 1 ELSE p.lvl - 5 + TrendOffset(p.trend, k)
  IN  [ Close    |-> IF k = 1 THEN (IF isna(p.mid) THEN p.lvl ELSE p.mid + p.closeOff)
                     ELSE IF k = p.pullAt THEN p.pullClose ELSE p.lvl,
        Low      |-> low,
        High     |-> IF k = 1 /\ p.extreme THEN 999 ELSE low + 10,
        EMA_200  |-> p.ema,
        BBM      |-> bbm,
        BBU      |-> IF isna(bbm) THEN NaN ELSE bbm + 2,
        BBL      |-> IF isna(bbm) THEN NaN ELSE bbm - 2,
        BB_WIDTH |-> IF k = 1 THEN p.wLatest
                     ELSE IF k = 2 THEN p.wPrev
                     ELSE IF k <= 2 + p.nLow THEN 3
                     ELSE IF k > lookback_period \/ (k = lookback_period /\ p.nanHist) THEN NaN
                     ELSE 5,
        ATRr_14  |-> p.atr ]

Table(p) == [j \in 1..p.n |-> Bar(p, p.n - j + 1)]

Trends == {"flat", "up", "down", "dip", "bump"}

\* An up-trend without squeeze: EMA-200 = 100, latest middle band 110,
\* band-width 5 on every bar, latest close above the upper band
Plain ==
  [ n |-> lookback_period, ema |-> 100, mid |-> 110, lvl |-> 100, closeOff |-> 3,
    wPrev |-> 5, wLatest |-> 5, nLow |-> 0, nanHist |-> FALSE, trend |-> "flat",
    pullClose |-> 100, pullAt |-> 50, atr |-> 2, extreme |-> FALSE ]

\* Scenario A of the specification: EMA-200 = 100, all middle bands 110,
\* band-width 0.05 on all 120 bars, latest close above the upper band
ScenarioA == [Plain EXCEPT !.lvl = 110]

\* short tables, and tables whose latest bars have undefined cells
GuardParams ==
  {ScenarioA} \cup
  {[Plain EXCEPT !.n = n, !.mid = m] : n \in {0, 1, lookback_period - 1}, m \in {90, 110}}
  \cup {[Plain EXCEPT !.mid = NaN], [Plain EXCEPT !.ema = NaN], [Plain EXCEPT !.wPrev = NaN],
        [Plain EXCEPT !.wPrev = NaN, !.mid = 90]}
  \cup {[Plain EXCEPT !.nanHist = TRUE, !.mid = m, !.wPrev = wp, !.wLatest = wl, !.closeOff = c] :
          m \in {90, 100, 110}, wp \in {3, 5}, wl \in {3, 5}, c \in {3, 0 - 3}}

\* every combination of squeeze today / yesterday with every position of the
\* latest close
SqueezeParams ==
  {[Plain EXCEPT !.n = n, !.mid = m, !.wPrev = wp, !.wLatest = wl, !.nLow = nl, !.closeOff = c] :
     n \in lookback_period..(lookback_period + MaxExtra), m \in {90, 100, 110},
     wp \in {3, 4, 5}, wl \in {3, 4, 5, NaN}, nl \in {0, 23, 24, 40},
     c \in {3, 2, 0, 0 - 3}}

\* latest bar squeezed: every trend shape with every pullback
ConsolidationParams ==
  {[Plain EXCEPT !.mid = m, !.wPrev = wp, !.wLatest = 3, !.closeOff = 0, !.trend = t,
                 !.pullClose = pc_, !.pullAt = pa] :
     m \in {90, 98, 100, 102, 103}, wp \in {3, 5}, t \in Trends,
     pc_ \in {94, 95, 105, 106}, pa \in {20, 21, 80, 81}}

AnalyzeInputs ==
  {None} \cup {DataFrame(Table(p)) : p \in GuardParams \cup SqueezeParams \cup ConsolidationParams}

StopLossInputs ==
  {DataFrame(Table([Plain EXCEPT !.lvl = l, !.ema = e, !.atr = a, !.trend = t, !.extreme = x])) :
     l \in {50, 100, 130}, e \in {50, 100}, a \in {0, 2, 5}, t \in Trends, x \in BOOLEAN}

----------------------------------------------------------------------------
(* The functions called on their own *)

Unset == [kind |-> "unset"]

\* The loop body's variables before the first iteration: the four that an
\* iteration may leave unassigned are unbound
Unbound ==
  [ ticker |-> "", daily_df |-> None, daily_signal |-> "", final_signal |-> "",
    confirmation_status |-> Text(""), entry_price |-> Text(""), stop_loss |-> Text(""),
    intraday_df |-> None, confirmed_signal |-> "", direction |-> "",
    stop_loss_val |-> <<>>, bound |-> FALSE ]

Idle ==
  /\ pc = "idle"
  /\ tickers_to_analyze = <<>>
  /\ i = 0
  /\ results_list = <<>>
  /\ loc = Unbound
  /\ sl_calls = <<>>

InitAnalyze ==
  /\ df \in AnalyzeInputs
  /\ direction = ""
  /\ ret = Unset
  /\ Idle

CallAnalyze ==
  /\ ret = Unset
  /\ ret' = [kind |-> "analyze_signal", out |-> analyze(df)]
  /\ UNCHANGED <<df, direction, pc, tickers_to_analyze, i, results_list, loc, sl_calls>>

SpecAnalyze == InitAnalyze /\ [][CallAnalyze]_vars

InitStopLoss ==
  /\ df \in StopLossInputs
  /\ direction \in {"Buy", "Sell", "Hold"}
  /\ ret = Unset
  /\ Idle

CallStopLoss ==
  /\ ret = Unset
  /\ ret' = [kind |-> "calculate_stop_loss", out |-> calculate_stop_loss(df, direction)]
  /\ UNCHANGED <<df, direction, pc, tickers_to_analyze, i, results_list, loc, sl_calls>>

SpecStopLoss == InitStopLoss /\ [][CallStopLoss]_vars

----------------------------------------------------------------------------
(* get_data *)

\* history is what the provider returned for the ticker, with the indicator
\* columns pandas_ta appends and after rounding: None when it is empty or
\* shorter than 200 bars, the table otherwise
get_data(history) ==
  IF Len(history) = 0 \/ Len(history) < 200 THEN None ELSE DataFrame(history)

----------------------------------------------------------------------------
(* run_streamlit_app: the "Find Setups" handler *)

\* Tickers one list may hold
MaxTickers == 2

Symbols == {"AAPL", "MSFT"}

TickerLists == UNION {[1..n -> Symbols] : n \in 0..MaxTickers}

\* What the provider may return for a daily request: nothing, a short history, or
\* 200 bars (a squeeze breakout upwards with the lows above the EMA-200,
\* one downwards, a plain up-trend, an undefined middle band)
DailyHistories ==
  {Table([Plain EXCEPT !.n = 0]), Table([Plain EXCEPT !.n = 150, !.wPrev = 3])}
  \cup {Table([Plain EXCEPT !.n = 200, !.wPrev = 3, !.lvl = 130]),
        Table([Plain EXCEPT !.n = 200, !.wPrev = 3, !.mid = 90, !.closeOff = 0 - 3]),
        Table([Plain EXCEPT !.n = 200]),
        Table([Plain EXCEPT !.n = 200, !.mid = NaN])}

\* The same for a 30-minute request
IntradayHistories ==
  {Table([Plain EXCEPT !.n = 150, !.wPrev = 3]),
   Table([Plain EXCEPT !.n = 200, !.wPrev = 3, !.mid = 111]),
   Table([Plain EXCEPT !.n = 200, !.wPrev = 3, !.mid = 89, !.closeOff = 0 - 3]),
   Table([Plain EXCEPT !.n = 200, !.mid = 112])}

\* "Buy" in signal
contains_Buy(signal) == signal \in {"Buy", "Strong Buy", "Super Strong Buy"}

\* signal.startswith("Super Strong") or signal.startswith("Strong")
starts_with_Strong(signal) ==
  signal \in {"Strong Buy", "Strong Sell", "Super Strong Buy", "Super Strong Sell"}

\* confirm that passes any two Strong signals, whatever their directions
confirm_any_direction(daily_signal, confirmed_signal) ==
  IF daily_signal = "Strong Buy" /\ confirmed_signal \in {"Strong Buy", "Strong Sell"}
  THEN [final_signal |-> "Super Strong Buy", confirmation_status |-> Text("Pass")]
  ELSE IF daily_signal = "Strong Sell" /\ confirmed_signal \in {"Strong Buy", "Strong Sell"}
  THEN [final_signal |-> "Super Strong Sell", confirmation_status |-> Text("Pass")]
  ELSE [final_signal |-> daily_signal, confirmation_status |-> Text("Fail")]

\* final_signal and confirmation_status after the comparison of the two signals
confirm(daily_signal, confirmed_signal) ==
  IF daily_signal = "Strong Buy" /\ confirmed_signal = "Strong Buy"
  THEN [final_signal |-> "Super Strong Buy", confirmation_status |-> Text("Pass")]
  ELSE IF daily_signal = "Strong Sell" /\ confirmed_signal = "Strong Sell"
  THEN [final_signal |-> "Super Strong Sell", confirmation_status |-> Text("Pass")]
  ELSE [final_signal |-> daily_signal, confirmation_status |-> Text("Fail")]

\* display without the collapse to "Hold for now"
display_as_is(final_signal) == final_signal

display(final_signal) ==
  IF starts_with_Strong(final_signal) THEN final_signal ELSE "Hold for now"

\* calculate_stop_loss called on the 30-minute table
stop_loss_args_intraday(l, intraday_df, dir) == [daily_df |-> intraday_df, direction |-> dir]

\* The arguments of calculate_stop_loss(daily_df, direction) at line 168
stop_loss_args(l, intraday_df, dir) == [daily_df |-> l.daily_df, direction |-> dir]

\* The local variables the loop body leaves behind when the 30-minute table
\* is available: l holds them as they are before the comparison
confirmed(l, intraday_df) ==
  LET confirmed_signal == analyze_signal(intraday_df)
      c                == confirm(l.daily_signal, confirmed_signal)
      dir              == IF contains_Buy(l.daily_signal) THEN "Buy" ELSE "Sell"
      args             == stop_loss_args(l, intraday_df, dir)
      stop_loss_val    == calculate_stop_loss(args.daily_df, args.direction)
  IN  [l EXCEPT !.intraday_df = intraday_df,
                !.confirmed_signal = confirmed_signal,
                !.final_signal = c.final_signal,
                !.confirmation_status = c.confirmation_status,
                !.direction = dir,
                !.entry_price = Format4(iloc(column(intraday_df.bars, "Close"), 0 - 1)),
                !.stop_loss_val = stop_loss_val,
                !.stop_loss = Format4(stop_loss_val[1])]

\* The record appended for the iteration
result_record(l) ==
  [ Instrument   |-> l.ticker,
    Signal       |-> display(l.final_signal),
    Entry_Price  |-> l.entry_price,
    Stop_Loss    |-> l.stop_loss,
    Confirmation |-> l.confirmation_status ]

Init ==
  /\ df = None
  /\ direction = ""
  /\ ret = Unset
  /\ pc = "idle"
  /\ tickers_to_analyze = <<>>
  /\ i = 0
  /\ results_list = <<>>
  /\ loc = Unbound
  /\ sl_calls = <<>>

\* st.button("Find Setups") with the tickers entered
FindSetups ==
  /\ pc = "idle"
  /\ \E tickers \in TickerLists :
       /\ tickers_to_analyze' = tickers
       /\ pc' = IF tickers = <<>> THEN "warned" ELSE "loop"
  /\ UNCHANGED <<df, direction, ret, i, results_list, loc, sl_calls>>

\* One iteration of "for i, ticker in enumerate(tickers_to_analyze)"
Iterate ==
  /\ pc = "loop"
  /\ i < Len(tickers_to_analyze)
  /\ \E daily_history \in DailyHistories :
       LET daily_df     == get_data(daily_history)
           daily_signal == analyze_signal(daily_df)
           l0 == [loc EXCEPT !.ticker = tickers_to_analyze[i + 1],
                             !.daily_df = daily_df,
                             !.daily_signal = daily_signal,
                             !.final_signal = daily_signal,
                             !.confirmation_status = Text("N/A"),
                             !.entry_price = Text("N/A"),
                             !.stop_loss = Text("N/A"),
                             !.bound = TRUE]
       IN  IF daily_signal \in {"Strong Buy", "Strong Sell"}
           THEN \E intraday_history \in IntradayHistories :
                  LET intraday_df == get_data(intraday_history)
                  IN  IF intraday_df # None
                      THEN LET l1 == confirmed(l0, intraday_df)
                           IN  /\ loc' = l1
                               /\ sl_calls' = <<stop_loss_args(l0, intraday_df, l1.direction)>>
                               /\ results_list' = Append(results_list, result_record(l1))
                      ELSE LET l1 == [l0 EXCEPT !.intraday_df = intraday_df,
                                                !.confirmation_status = Text("30m Data Error")]
                           IN  /\ loc' = l1
                               /\ sl_calls' = <<>>
                               /\ results_list' = Append(results_list, result_record(l1))
           ELSE /\ loc' = l0
                /\ sl_calls' = <<>>
                /\ results_list' = Append(results_list, result_record(l0))
  /\ i' = i + 1
  /\ UNCHANGED <<df, direction, ret, pc, tickers_to_analyze>>

\* status_text.success("Analysis Complete!")
Finish ==
  /\ pc = "loop"
  /\ i = Len(tickers_to_analyze)
  /\ pc' = "done"
  /\ UNCHANGED <<df, direction, ret, tickers_to_analyze, i, results_list, loc, sl_calls>>

Next == FindSetups \/ Iterate \/ Finish

Spec == Init /\ [][Next]_vars

\* The handler runs sequentially to its end: no step of it waits forever
FairSpec == Spec /\ WF_vars(Next)

----------------------------------------------------------------------------
(* What the specification says of a table, stated on the rows themselves   *)

\* The row at position -k
Row(d, k) == d.bars[Len(d.bars) + 1 - k]

Called(f) == ret # Unset /\ ret.kind = f

Strong == {"Strong Buy", "Strong Sell"}

\* A table analyze_signal classifies with its squeeze logic: at least 120
\* bars, latest middle band and EMA-200 defined, and all 119 band-widths at
\* positions [-120, -2] defined
Usable(d) ==
  /\ d.avail
  /\ Len(d.bars) >= 120
  /\ ~isna(Row(d, 1).BBM)
  /\ ~isna(Row(d, 1).EMA_200)
  /\ \A k \in 2..120 : ~isna(Row(d, k).BB_WIDTH)

\* The r-th smallest band-width of the window at positions [-120, -2]
OrderStatistic(d, r) ==
  CHOOSE v \in {Row(d, k).BB_WIDTH : k \in 2..120} :
    /\ Cardinality({k \in 2..120 : Row(d, k).BB_WIDTH < v}) < r
    /\ Cardinality({k \in 2..120 : Row(d, k).BB_WIDTH <= v}) >= r

\* Five times the 20th percentile of the window: the percentile lies at
\* rank 0.2 * 118 = 23.6 (from 0), 0.4 s[23] + 0.6 s[24]
Threshold5(d) == 2 * OrderStatistic(d, 24) + 3 * OrderStatistic(d, 25)

\* The bar at position -k is squeezed: its band-width is below the percentile
Squeezed(d, k) ==
  /\ ~isna(Row(d, k).BB_WIDTH)
  /\ 5 * Row(d, k).BB_WIDTH < Threshold5(d)

BaseTrend(d) ==
  IF Row(d, 1).BBM > Row(d, 1).EMA_200 THEN "Buy"
  ELSE IF Row(d, 1).BBM < Row(d, 1).EMA_200 THEN "Sell"
  ELSE "Hold"

\* The sign of the least-squares slope of col over positions [-60, -2] is
\* the sign of the sum of (x - mean x) * y, x = 0..58, mean x = 29
CentredSum(d, col) == sum([x \in 0..58 |-> (x - 29) * Row(d, 60 - x)[col]], 0, 58)

SlopeOk(d) ==
  \/ BaseTrend(d) = "Buy" /\ CentredSum(d, "Low") > 0
  \/ BaseTrend(d) = "Sell" /\ CentredSum(d, "High") < 0

NearEma(d) ==
  100 * Abs(Row(d, 1).BBM - Row(d, 1).EMA_200) < 3 * Row(d, 1).EMA_200

\* Close over the 60 bars at positions -80 .. -21
PullbackOk(d) ==
  /\ NearEma(d)
  /\ \/ /\ BaseTrend(d) = "Buy"
        /\ \E k \in 21..80 : 100 * Row(d, k).Close > 105 * Row(d, 1).EMA_200
     \/ /\ BaseTrend(d) = "Sell"
        /\ \E k \in 21..80 : 100 * Row(d, k).Close < 95 * Row(d, 1).EMA_200

\* Scenario A of the specification, as a property of the table: 120 bars,
\* EMA-200 = 100 and middle band 110 on every bar, band-width 0.05 (5 units
\* of 0.01) on every bar, latest close above the latest upper band
IsScenarioA(d) ==
  /\ d.avail
  /\ Len(d.bars) = 120
  /\ \A k \in 1..120 :
       Row(d, k).EMA_200 = 100 /\ Row(d, k).BBM = 110 /\ Row(d, k).BB_WIDTH = 5
  /\ Row(d, 1).Close > Row(d, 1).BBU

----------------------------------------------------------------------------
(* Claims on analyze_signal, checked under SpecAnalyze *)

\* C2: analyze_signal returns "Insufficient Data" for a table that is None and
\* for every table with fewer than 120 bars, whatever its cells hold, and it
\* has read no bar when it does
C2_InsufficientData ==
  Called("analyze_signal") /\ (~df.avail \/ Len(df.bars) < 120)
    => ret.out.signal = "Insufficient Data" /\ ret.out.read = {}

\* a table of 119 bars whose latest cells are all defined has been classified
C2_Witness ==
  /\ Called("analyze_signal")
  /\ df.avail /\ Len(df.bars) = 119
  /\ ~isna(Row(df, 1).BBM) /\ ~isna(Row(df, 2).BB_WIDTH)
  /\ ret.out.signal = "Insufficient Data"

\* C4: the breakout return is taken only when the previous bar is squeezed
\* and the latest is not; a table squeezed on both bars gets a Strong result
\* only from the consolidation check, with the slope or the pullback
\* condition true; a table squeezed on neither bar gets no Strong result
C4_BreakoutOnlyOnTransition ==
  Called("analyze_signal") =>
    /\ ret.out.exit = "breakout"
         => Usable(df) /\ Squeezed(df, 2) /\ ~Squeezed(df, 1)
    /\ Usable(df) /\ Squeezed(df, 2) /\ Squeezed(df, 1) /\ ret.out.signal \in Strong
         => ret.out.exit = "consolidation" /\ (SlopeOk(df) \/ PullbackOk(df))
    /\ Usable(df) /\ ~Squeezed(df, 2) /\ ~Squeezed(df, 1)
         => ret.out.signal \notin Strong

\* squeezed on both bars, close above the upper band, Strong Buy by the slope
C4_Witness ==
  /\ Called("analyze_signal")
  /\ Usable(df) /\ Squeezed(df, 2) /\ Squeezed(df, 1)
  /\ ret.out.signal = "Strong Buy"
  /\ SlopeOk(df)

\* C5: Buy and Strong Buy are returned only with the latest middle band above
\* the latest EMA-200, Sell and Strong Sell only with it below; with the two
\* equal the result is Hold (or Insufficient Data), never a direction
C5_DirectionFollowsTrend ==
  Called("analyze_signal") =>
    /\ ret.out.signal \in {"Buy", "Strong Buy"}
         => df.avail /\ ~isna(Row(df, 1).BBM) /\ ~isna(Row(df, 1).EMA_200)
            /\ Row(df, 1).BBM > Row(df, 1).EMA_200
    /\ ret.out.signal \in {"Sell", "Strong Sell"}
         => df.avail /\ ~isna(Row(df, 1).BBM) /\ ~isna(Row(df, 1).EMA_200)
            /\ Row(df, 1).BBM < Row(df, 1).EMA_200
    /\ Usable(df) /\ Row(df, 1).BBM = Row(df, 1).EMA_200
         => ret.out.signal = "Hold"

\* middle band equal to the EMA-200 on a squeezed latest bar with a close of
\* the pullback window more than 5 % above the EMA-200: Hold
C5_Witness ==
  /\ Called("analyze_signal")
  /\ Usable(df) /\ Squeezed(df, 1)
  /\ Row(df, 1).BBM = Row(df, 1).EMA_200
  /\ \E k \in 21..80 : 100 * Row(df, k).Close > 105 * Row(df, 1).EMA_200
  /\ ret.out.signal = "Hold"

C10_Consolidation ==
  Called("analyze_signal") /\ Usable(df) /\ Squeezed(df, 1) /\ ret.out.exit # "breakout" =>
    ret.out.signal =
      IF SlopeOk(df) \/ PullbackOk(df)
      THEN (IF BaseTrend(df) = "Buy" THEN "Strong Buy" ELSE "Strong Sell")
      ELSE BaseTrend(df)

\* a squeezed down-trend near the EMA-200 with rising highs and a close of the
\* pullback window below 95 % of the EMA-200: Strong Sell by the pullback alone
C10_Witness ==
  /\ Called("analyze_signal")
  /\ Usable(df) /\ Squeezed(df, 1)
  /\ BaseTrend(df) = "Sell" /\ ~SlopeOk(df) /\ PullbackOk(df)
  /\ ret.out.signal = "Strong Sell"

----------------------------------------------------------------------------
(* Claims on calculate_stop_loss, checked under SpecStopLoss *)

\* The lowest Low and the highest High of the 59 bars at positions [-60, -2]
SwingLow(d) ==
  CHOOSE v \in {Row(d, k).Low : k \in 2..60} : \A k \in 2..60 : Row(d, k).Low >= v

SwingHigh(d) ==
  CHOOSE v \in {Row(d, k).High : k \in 2..60} : \A k \in 2..60 : Row(d, k).High <= v

\* max(ema200 - atr, swingLow - atr) for Buy, min(ema200 + atr, swingHigh + atr)
\* for Sell
ExpectedStop(d, dir) ==
  LET ema == Row(d, 1).EMA_200
      atr == Row(d, 1).ATRr_14
  IN  IF dir = "Buy"
      THEN (IF ema >= SwingLow(d) THEN ema - atr ELSE SwingLow(d) - atr)
      ELSE (IF ema <= SwingHigh(d) THEN ema + atr ELSE SwingHigh(d) + atr)

\* C1 as the specification states it: for Buy the price returned never
\* exceeds the latest EMA-200, whatever the lows of the swing window are
C1_NeverAboveEma ==
  Called("calculate_stop_loss") /\ direction = "Buy"
    => ret.out[1] <= Row(df, 1).EMA_200

\* C1 (as amended): for Buy and a non-negative latest ATR-14 the price
\* returned never exceeds the larger of the latest EMA-200 and the swing low;
\* it is at most the EMA-200 exactly when the swing low less the ATR is, and
\* above the EMA-200 when the swing low lies more than one ATR above it
C1_AboveEmaOnlyWithHighSwingLow ==
  Called("calculate_stop_loss") /\ direction = "Buy" =>
    /\ ret.out[1] <= Max(Row(df, 1).EMA_200, SwingLow(df))
    /\ ret.out[1] <= Row(df, 1).EMA_200
         <=> SwingLow(df) - Row(df, 1).ATRr_14 <= Row(df, 1).EMA_200

\* a Buy stop above the EMA-200: the swing low lies more than one ATR above it
C1_Witness ==
  /\ Called("calculate_stop_loss") /\ direction = "Buy"
  /\ SwingLow(df) - Row(df, 1).ATRr_14 > Row(df, 1).EMA_200
  /\ ret.out[1] > Row(df, 1).EMA_200

\* C7: for Buy the price is max(ema200 - atr, swingLow - atr), swingLow the
\* lowest Low of the 59 bars at positions [-60, -2]; for Sell it is
\* min(ema200 + atr, swingHigh + atr), swingHigh the highest High of the same
\* bars; the latest bar counts in neither; Buy with ema200 = 50, atr = 2 and
\* swingLow = 45 gives 48
C7_StopLossFormula ==
  Called("calculate_stop_loss") /\ direction \in {"Buy", "Sell"} =>
    /\ ret.out = <<ExpectedStop(df, direction)>>
    /\ direction = "Buy" /\ Row(df, 1).EMA_200 = 50 /\ Row(df, 1).ATRr_14 = 2
       /\ SwingLow(df) = 45
         => ret.out = <<48>>

\* Scenario C on a table whose latest bar has a Low below the swing low
C7_Witness ==
  /\ Called("calculate_stop_loss") /\ direction = "Buy"
  /\ Row(df, 1).EMA_200 = 50 /\ Row(df, 1).ATRr_14 = 2 /\ SwingLow(df) = 45
  /\ Row(df, 1).Low < 45
  /\ ret.out = <<48>>

----------------------------------------------------------------------------
(* Claims on the screening loop, checked under Spec and FairSpec *)

Record(k) == results_list[k]

\* The 30-minute table of the iteration just made: the variable is assigned
\* only when the daily signal is Strong
IntradayAvailable == loc.daily_signal \in Strong /\ loc.intraday_df.avail

IntradayUnavailable == loc.daily_signal \in Strong /\ ~loc.intraday_df.avail

\* C3: the final signal is Super Strong Buy only if analyze_signal returned
\* Strong Buy on the daily table and Strong Buy on the 30-minute table of the
\* ticker (Sell alike); with a Strong daily signal and an available 30-minute
\* table every other case has confirmation "Fail" and keeps the daily signal
C3_SuperStrongNeedsBoth ==
  loc.bound =>
    /\ loc.daily_signal = analyze_signal(loc.daily_df)
    /\ Record(i).Instrument = loc.ticker /\ Record(i).Signal = display(loc.final_signal)
    /\ \A side \in {"Buy", "Sell"} :
         Record(i).Signal = "Super Strong " \o side
           => /\ loc.daily_signal = "Strong " \o side
              /\ loc.intraday_df.avail
              /\ loc.confirmed_signal = "Strong " \o side
              /\ loc.confirmed_signal = analyze_signal(loc.intraday_df)
              /\ Record(i).Confirmation = Text("Pass")
    /\ IntradayAvailable /\ loc.confirmed_signal # loc.daily_signal
         => /\ loc.confirmation_status = Text("Fail")
            /\ Record(i).Confirmation = Text("Fail")
            /\ Record(i).Signal = loc.daily_signal

\* a Strong Buy on the daily table met by a Strong Sell on the 30-minute table
C3_Witness ==
  /\ loc.bound
  /\ loc.daily_signal = "Strong Buy" /\ loc.intraday_df.avail
  /\ loc.confirmed_signal = "Strong Sell"
  /\ Record(i).Signal = "Strong Buy" /\ Record(i).Confirmation = Text("Fail")

Priced(r) == r.Entry_Price[1] = "%.4f" /\ r.Stop_Loss[1] = "%.4f"

Unpriced(r) == r.Entry_Price = Text("N/A") /\ r.Stop_Loss = Text("N/A")

\* C8: an iteration calls calculate_stop_loss once, on the daily table and
\* with the direction of the daily signal, when the daily signal is Strong and
\* the 30-minute table is available, and not at all otherwise; a record has an
\* entry price and a stop-loss price exactly when its confirmation is "Pass"
\* or "Fail", and "N/A" for both when it is "N/A" or "30m Data Error"
C8_StopLossOncePerConfirmation ==
  /\ loc.bound =>
       /\ sl_calls =
            IF IntradayAvailable
            THEN <<[daily_df |-> loc.daily_df,
                    direction |-> IF loc.daily_signal = "Strong Buy" THEN "Buy" ELSE "Sell"]>>
            ELSE <<>>
       /\ IntradayAvailable
            => /\ Record(i).Stop_Loss = Format4(ExpectedStop(loc.daily_df, sl_calls[1].direction))
               /\ Record(i).Entry_Price = Format4(Row(loc.intraday_df, 1).Close)
  /\ \A k \in 1..Len(results_list) :
       /\ Record(k).Confirmation \in
            {Text("N/A"), Text("Pass"), Text("Fail"), Text("30m Data Error")}
       /\ Record(k).Confirmation \in {Text("Pass"), Text("Fail")} <=> Priced(Record(k))
       /\ Record(k).Confirmation \in {Text("N/A"), Text("30m Data Error")}
            <=> Unpriced(Record(k))

\* a failed confirmation: one call, on the daily table, and a priced record
C8_Witness ==
  /\ loc.bound /\ IntradayAvailable
  /\ loc.daily_df # loc.intraday_df
  /\ Len(sl_calls) = 1 /\ sl_calls[1].daily_df = loc.daily_df
  /\ Record(i).Confirmation = Text("Fail") /\ Priced(Record(i))

\* What holds of the records at every point of a run
C9_Records ==
  /\ pc \in {"loop", "done"} =>
       /\ Len(results_list) = i
       /\ i <= Len(tickers_to_analyze)
       /\ \A k \in 1..i : Record(k).Instrument = tickers_to_analyze[k]
  /\ pc = "done" => i = Len(tickers_to_analyze)
  /\ loc.bound /\ ~loc.daily_df.avail
       => Record(i).Signal = "Hold for now" /\ Record(i).Confirmation = Text("N/A")
  /\ loc.bound /\ IntradayUnavailable
       => /\ Record(i).Signal = loc.daily_signal
          /\ Record(i).Confirmation = Text("30m Data Error")

\* C9: a run over a ticker list ends, with one record per ticker in the order
\* of the list, whatever each fetch returned: an unavailable daily table
\* gives a "Hold for now" record with confirmation "N/A", an unavailable
\* 30-minute table a record with the daily Strong signal and "30m Data Error",
\* and the loop goes on to the tickers that remain
C9_OneRecordPerTicker == [](C9_Records) /\ (pc = "loop" ~> pc = "done")

\* a finished run of two tickers: no 30-minute table for the first, no daily
\* table for the second
C9_Witness ==
  /\ pc = "done" /\ i = 2
  /\ Record(1).Confirmation = Text("30m Data Error")
  /\ ~loc.daily_df.avail
  /\ Record(2).Signal = "Hold for now"

====
